---- MODULE Spec2Model ----
(***************************************************************************)
(* Model of the AI FAQ assistant's entry points:                           *)
(*   app/main.py           the CLI question loop                           *)
(*   app/streamlit_app.py  the blocking Streamlit chat                     *)
(*   app/app.py            the streaming Streamlit chat (stream_response)  *)
(*   app/search_tools.py   the SearchTool adapter over the index           *)
(* One process runs one of these programs; `entry` says which.  Texts are  *)
(* sequences of one-character strings so that slicing, stripping and       *)
(* lower-casing are computed, not assumed.                                 *)
(***************************************************************************)
EXTENDS Integers, Sequences, FiniteSets, TLC

\* ------------------------------------------------------------------ bounds
MaxLen == 3
MaxTurns == 2
MaxSearches == 2

\* --------------------------------------------------------------- constants
NumResults == 5

VARIABLES
  entry,          \* which program this process runs
  pc,             \* position in the program
  turns,          \* prompts read so far
  prompt,         \* the prompt of the current turn
  output,         \* the model's full output text of the current run
  status,         \* outcome of the current turn's run
  messages,       \* st.session_state.messages
  events,         \* what happened in the current turn, in order
  logged,         \* arguments of the Logger calls of the current turn
  shown,          \* answer text the user has been shown in the current turn
  snap,           \* latest cumulative snapshot delivered by stream_output
  last_len,       \* agen local
  full_text,      \* agen local
  pieces,         \* increments yielded by stream_response in this run
  last_response,  \* st.session_state._last_response
  loops,          \* event loops created by stream_response
  ctx,            \* agent.run_stream context of the current run
  index,          \* the index held by SearchTool
  queries,        \* queries passed to SearchTool.search
  indexCalls,     \* calls received by index.search
  results         \* values returned by SearchTool.search

vars == <<entry, pc, turns, prompt, output, status, messages, events, logged,
          shown, snap, last_len, full_text, pieces, last_response, loops, ctx,
          index, queries, indexCalls, results>>

turnVars == <<prompt, output, status, events, logged, shown>>
streamVars == <<snap, last_len, full_text, pieces, last_response, loops, ctx>>
searchVars == <<index, queries, indexCalls, results>>

\* ------------------------------------------------------------------- texts
\* Output texts of the model: the prefixes of two texts, one with all
\* characters distinct and one with a repeated character.
Letters == <<"a", "b", "c", "d", "e", "f", "g", "h">>

Repeated == [i \in 1..Len(Letters) |-> "a"]

Outputs ==
  {SubSeq(Letters, 1, n) : n \in 0..MaxLen} \cup {SubSeq(Repeated, 1, n) : n \in 2..MaxLen}

Prompts == {<<"q", "1">>, <<"q", "2">>}

Questions ==
  { <<"s", "t", "o", "p">>,
    <<" ", "S", "T", "O", "P", " ">>,
    <<"S", "t", "o", "p">>,
    <<"s", "t", " ", "o", "p">>,
    <<"s", "t", "o", "p", "s">>,
    <<"h", "i">>,
    <<>> }

Whitespace == {" "}

RECURSIVE LStrip(_)
LStrip(s) ==
  IF s = <<>> THEN <<>>
  ELSE IF Head(s) \in Whitespace THEN LStrip(Tail(s)) ELSE s

RECURSIVE RStrip(_)
RStrip(s) ==
  IF s = <<>> THEN <<>>
  ELSE IF s[Len(s)] \in Whitespace THEN RStrip(SubSeq(s, 1, Len(s) - 1)) ELSE s

Strip(s) == RStrip(LStrip(s))

LowerChar(c) ==
  CASE c = "S" -> "s"
    [] c = "T" -> "t"
    [] c = "O" -> "o"
    [] c = "P" -> "p"
    [] OTHER -> c

Lower(s) == [i \in 1..Len(s) |-> LowerChar(s[i])]

IsStopExact(question) == question = <<"s", "t", "o", "p">>

IsStop(question) == Lower(Strip(question)) = <<"s", "t", "o", "p">>

RECURSIVE Concat(_)
Concat(ss) == IF ss = <<>> THEN <<>> ELSE Head(ss) \o Concat(Tail(ss))

Slice(s, from) ==
  IF from >= Len(s) THEN <<>> ELSE SubSeq(s, from + 1, Len(s))

NewTextWhole(chunk, last) == chunk

NewText(chunk, last) == Slice(chunk, last)

NextFullTextAccumulate(full, chunk) == full \o chunk

NextFullText(full, chunk) == chunk

LogCallTwice(calls, msgs) == Append(Append(calls, msgs), msgs)

LogCall(calls, msgs) == Append(calls, msgs)

NewMessages(p, o) == [prompt |-> p, output |-> o]

ErrBackend == <<"model backend error">>
ErrLogging == <<"logging failure">>
ErrorMessage(e) == <<"Error: ">> \o e

UserMessage(p) == [role |-> "user", content |-> p]
AssistantMessage(t) == [role |-> "assistant", content |-> t]

Unset == [set |-> FALSE, text |-> <<>>]
Stored(t) == [set |-> TRUE, text |-> t]
GetAttr(attr, default) == IF attr.set THEN attr.text ELSE default

InEvents(e) == \E i \in DOMAIN events : events[i] = e
Count(e) == Cardinality({i \in DOMAIN events : events[i] = e})

\* ------------------------------------------------------------------- index
Doc(id, words) == [id |-> id, words |-> words]

FaqIndex ==
  << Doc(1, {"dbt", "pandas"}), Doc(2, {"dbt"}), Doc(3, {"dbt", "spark"}),
     Doc(4, {"dbt"}), Doc(5, {"pandas", "dbt"}), Doc(6, {"dbt"}),
     Doc(7, {"dbt", "kafka"}) >>

Indexes == {FaqIndex, SubSeq(FaqIndex, 1, 3), <<>>}

Queries == {"dbt", "pandas", "airflow"}

Min(a, b) == IF a <= b THEN a ELSE b

Matches(query, doc) == query \in doc.words

IndexSearch(idx, query, num_results) ==
  LET hits == SelectSeq(idx, LAMBDA d : Matches(query, d))
  IN SubSeq(hits, 1, Min(num_results, Len(hits)))

SearchArgsUncapped(query) == [query |-> query, num_results |-> NumResults + 1]

SearchArgs(query) == [query |-> query, num_results |-> NumResults]

\* -------------------------------------------------------------------- init
Entries == {"cli", "blocking", "streaming", "search"}

Init ==
  /\ entry \in Entries
  /\ pc = "idle"
  /\ turns = 0
  /\ prompt = <<>>
  /\ output = <<>>
  /\ status = "none"
  /\ messages = <<>>
  /\ events = <<>>
  /\ logged = <<>>
  /\ shown = <<>>
  /\ snap = <<>>
  /\ last_len = 0
  /\ full_text = <<>>
  /\ pieces = <<>>
  /\ last_response = Unset
  /\ loops = <<>>
  /\ ctx = "none"
  /\ index \in (IF entry = "search" THEN Indexes ELSE {<<>>})
  /\ queries = <<>>
  /\ indexCalls = <<>>
  /\ results = <<>>

\* A new turn starts: the per-turn record is reset.
StartTurn(p, ev) ==
  /\ turns' = turns + 1
  /\ prompt' = p
  /\ output' = <<>>
  /\ status' = "running"
  /\ events' = <<ev>>
  /\ logged' = <<>>
  /\ shown' = <<>>

\* ------------------------------------------------------- app/main.py (CLI)
CliInput(question) ==
  /\ entry = "cli"
  /\ pc = "idle"
  /\ turns < MaxTurns
  /\ IF IsStop(question)
       THEN /\ pc' = "exited"
            /\ turns' = turns + 1
            /\ prompt' = question
            /\ output' = <<>>
            /\ status' = "none"
            /\ events' = <<"input", "stop">>
            /\ logged' = <<>>
            /\ shown' = <<>>
       ELSE /\ pc' = "run"
            /\ StartTurn(question, "input")
  /\ UNCHANGED <<entry, messages, streamVars, searchVars>>

CliRunOk(out) ==
  /\ entry = "cli"
  /\ pc = "run"
  /\ output' = out
  /\ events' = Append(events, "run_ok")
  /\ pc' = "log"
  /\ UNCHANGED <<entry, turns, prompt, status, messages, logged, shown,
                 streamVars, searchVars>>

CliRunError ==
  /\ entry = "cli"
  /\ pc = "run"
  /\ events' = events \o <<"run_err", "crash">>
  /\ status' = "failed"
  /\ pc' = "crashed"
  /\ UNCHANGED <<entry, turns, prompt, output, messages, logged, shown,
                 streamVars, searchVars>>

CliLog(ok) ==
  /\ entry = "cli"
  /\ pc = "log"
  /\ logged' = LogCall(logged, NewMessages(prompt, output))
  /\ IF ok
       THEN /\ events' = Append(events, "log_ok")
            /\ pc' = "print"
            /\ status' = status
       ELSE /\ events' = events \o <<"log_err", "crash">>
            /\ pc' = "crashed"
            /\ status' = "failed"
  /\ UNCHANGED <<entry, turns, prompt, output, messages, shown,
                 streamVars, searchVars>>

CliPrint ==
  /\ entry = "cli"
  /\ pc = "print"
  /\ shown' = output
  /\ events' = Append(events, "show")
  /\ status' = "completed"
  /\ pc' = "idle"
  /\ UNCHANGED <<entry, turns, prompt, output, messages, logged,
                 streamVars, searchVars>>

\* ------------------------------------- app/streamlit_app.py (blocking chat)
BlockingChatInput(p) ==
  /\ entry = "blocking"
  /\ pc = "idle"
  /\ turns < MaxTurns
  /\ messages' = Append(messages, UserMessage(p))
  /\ StartTurn(p, "user")
  /\ pc' = "run"
  /\ UNCHANGED <<entry, streamVars, searchVars>>

BlockingRunOk(out) ==
  /\ entry = "blocking"
  /\ pc = "run"
  /\ output' = out
  /\ events' = Append(events, "run_ok")
  /\ pc' = "log"
  /\ UNCHANGED <<entry, turns, prompt, status, messages, logged, shown,
                 streamVars, searchVars>>

\* The except branch of the chat handler.
BlockingExcept(ev, e) ==
  /\ events' = events \o <<ev, "error", "assistant">>
  /\ messages' = Append(messages, AssistantMessage(ErrorMessage(e)))
  /\ status' = "failed"
  /\ pc' = "idle"

BlockingRunError ==
  /\ entry = "blocking"
  /\ pc = "run"
  /\ BlockingExcept("run_err", ErrBackend)
  /\ UNCHANGED <<entry, turns, prompt, output, logged, shown,
                 streamVars, searchVars>>

BlockingLog(ok) ==
  /\ entry = "blocking"
  /\ pc = "log"
  /\ logged' = LogCall(logged, NewMessages(prompt, output))
  /\ IF ok
       THEN /\ events' = Append(events, "log_ok")
            /\ pc' = "show"
            /\ UNCHANGED <<messages, status>>
       ELSE BlockingExcept("log_err", ErrLogging)
  /\ UNCHANGED <<entry, turns, prompt, output, shown, streamVars, searchVars>>

BlockingShow ==
  /\ entry = "blocking"
  /\ pc = "show"
  /\ shown' = output
  /\ messages' = Append(messages, AssistantMessage(output))
  /\ events' = events \o <<"show", "assistant">>
  /\ status' = "completed"
  /\ pc' = "idle"
  /\ UNCHANGED <<entry, turns, prompt, output, logged, streamVars, searchVars>>

BlockingClear ==
  /\ entry = "blocking"
  /\ pc = "idle"
  /\ messages # <<>>
  /\ messages' = <<>>
  /\ prompt' = <<>>
  /\ output' = <<>>
  /\ status' = "none"
  /\ events' = <<"clear">>
  /\ logged' = <<>>
  /\ shown' = <<>>
  /\ UNCHANGED <<entry, pc, turns, streamVars, searchVars>>

\* --------------------------------------------- app/app.py (streaming chat)
\* The chat input handler up to the call of st.write_stream.
StreamChatInput(p) ==
  /\ entry = "streaming"
  /\ pc = "idle"
  /\ turns < MaxTurns
  /\ messages' = Append(messages, UserMessage(p))
  /\ StartTurn(p, "user")
  /\ snap' = <<>>
  /\ pieces' = <<>>
  /\ ctx' = "none"
  /\ pc' = "created"
  /\ UNCHANGED <<entry, last_len, full_text, last_response, loops, searchVars>>

\* First pull: stream_response creates its event loop and the agen object.
\* No statement of stream_response closes a loop, so no action does.
BridgeStart ==
  /\ entry = "streaming"
  /\ pc = "created"
  /\ loops' = Append(loops, "open")
  /\ pc' = "entering"
  /\ UNCHANGED <<entry, turns, turnVars, messages, snap, last_len, full_text,
                 pieces, last_response, ctx, searchVars>>

\* agen enters agent.run_stream; the model will produce `out`.
EnterRunStream(out) ==
  /\ entry = "streaming"
  /\ pc = "entering"
  /\ output' = out
  /\ ctx' = "open"
  /\ last_len' = 0
  /\ full_text' = <<>>
  /\ pc' = "pulling"
  /\ UNCHANGED <<entry, turns, prompt, status, events, logged, shown, messages,
                 snap, pieces, last_response, loops, searchVars>>

\* stream_output delivers the next cumulative snapshot, the first k
\* characters of the output; agen yields the delta when it is not empty.
StreamChunk(k) ==
  /\ entry = "streaming"
  /\ pc = "pulling"
  /\ k \in Len(snap)..Len(output)
  /\ LET chunk == SubSeq(output, 1, k)
         new_text == NewText(chunk, last_len)
     IN /\ snap' = chunk
        /\ last_len' = Len(chunk)
        /\ full_text' = NextFullText(full_text, chunk)
        /\ IF new_text # <<>>
             THEN /\ pieces' = Append(pieces, new_text)
                  /\ shown' = shown \o new_text
                  /\ events' = Append(events, "yield")
                  /\ pc' = "yielded"
             ELSE UNCHANGED <<pieces, shown, events, pc>>
  /\ UNCHANGED <<entry, turns, prompt, output, status, logged, messages,
                 last_response, loops, ctx, searchVars>>

\* st.write_stream asks for the next piece.
CallerPull ==
  /\ entry = "streaming"
  /\ pc = "yielded"
  /\ pc' = "pulling"
  /\ UNCHANGED <<entry, turns, turnVars, messages, streamVars, searchVars>>

\* The script run is stopped while stream_response is suspended at its
\* yield: nobody pulls again, and nothing closes agen or the loop.
Abandon ==
  /\ entry = "streaming"
  /\ pc = "yielded"
  /\ status' = "abandoned"
  /\ events' = Append(events, "abandon")
  /\ pc' = "idle"
  /\ UNCHANGED <<entry, turns, prompt, output, logged, shown, messages,
                 streamVars, searchVars>>

\* An exception leaves agen: it passes through loop.run_until_complete and
\* stream_response (which catches StopAsyncIteration only) and ends the
\* script run before the history is saved.
ModelError ==
  /\ entry = "streaming"
  /\ pc \in {"entering", "pulling"}
  /\ events' = events \o <<"run_err", "raise", "error">>
  /\ ctx' = IF ctx = "open" THEN "closed" ELSE ctx
  /\ status' = "failed"
  /\ pc' = "idle"
  /\ UNCHANGED <<entry, turns, prompt, output, logged, shown, messages, snap,
                 last_len, full_text, pieces, last_response, loops, searchVars>>

\* The underlying stream is exhausted: the Logger is called.
AgenLog(ok) ==
  /\ entry = "streaming"
  /\ pc = "pulling"
  /\ snap = output
  /\ logged' = LogCall(logged, NewMessages(prompt, output))
  /\ IF ok
       THEN /\ events' = events \o <<"exhausted", "log_ok">>
            /\ pc' = "logged"
            /\ UNCHANGED <<ctx, status>>
       ELSE /\ events' = events \o <<"exhausted", "log_err", "raise", "error">>
            /\ ctx' = "closed"
            /\ status' = "failed"
            /\ pc' = "idle"
  /\ UNCHANGED <<entry, turns, prompt, output, shown, messages, snap, last_len,
                 full_text, pieces, last_response, loops, searchVars>>

AgenStore ==
  /\ entry = "streaming"
  /\ pc = "logged"
  /\ last_response' = Stored(full_text)
  /\ ctx' = "closed"
  /\ events' = Append(events, "store")
  /\ pc' = "stored"
  /\ UNCHANGED <<entry, turns, prompt, output, status, logged, shown, messages,
                 snap, last_len, full_text, pieces, loops, searchVars>>

\* StopAsyncIteration: stream_response returns.
BridgeReturn ==
  /\ entry = "streaming"
  /\ pc = "stored"
  /\ events' = Append(events, "end")
  /\ status' = "completed"
  /\ pc' = "returned"
  /\ UNCHANGED <<entry, turns, prompt, output, logged, shown, messages,
                 streamVars, searchVars>>

\* The chat input handler after st.write_stream has returned.
SaveHistory ==
  /\ entry = "streaming"
  /\ pc = "returned"
  /\ LET response_text == Concat(pieces)
         final_text == GetAttr(last_response, response_text)
     IN messages' = Append(messages, AssistantMessage(final_text))
  /\ events' = Append(events, "assistant")
  /\ pc' = "idle"
  /\ UNCHANGED <<entry, turns, prompt, output, status, logged, shown,
                 streamVars, searchVars>>

\* ------------------------------------------------- app/search_tools.py
Search(query) ==
  /\ entry = "search"
  /\ Len(queries) < MaxSearches
  /\ LET call == SearchArgs(query)
     IN /\ indexCalls' = Append(indexCalls, call)
        /\ results' = Append(results, IndexSearch(index, call.query, call.num_results))
  /\ queries' = Append(queries, query)
  /\ UNCHANGED <<entry, pc, turns, turnVars, messages, streamVars, index>>

\* -------------------------------------------------------------------- next
Next ==
  \/ \E q \in Questions : CliInput(q)
  \/ \E o \in Outputs : CliRunOk(o)
  \/ CliRunError
  \/ \E ok \in BOOLEAN : CliLog(ok)
  \/ CliPrint
  \/ \E p \in Prompts : BlockingChatInput(p)
  \/ \E o \in Outputs : BlockingRunOk(o)
  \/ BlockingRunError
  \/ \E ok \in BOOLEAN : BlockingLog(ok)
  \/ BlockingShow
  \/ BlockingClear
  \/ \E p \in Prompts : StreamChatInput(p)
  \/ BridgeStart
  \/ \E o \in Outputs : EnterRunStream(o)
  \/ \E k \in 0..MaxLen : StreamChunk(k)
  \/ CallerPull
  \/ Abandon
  \/ ModelError
  \/ \E ok \in BOOLEAN : AgenLog(ok)
  \/ AgenStore
  \/ BridgeReturn
  \/ SaveHistory
  \/ \E q \in Queries : Search(q)

Spec == Init /\ [][Next]_vars

\* ------------------------------------------------------------ properties
LogEvents == {"log_ok", "log_err"}
EndEvents == {"end", "raise"}
Stop == <<"s", "t", "o", "p">>

Before(A, B) ==
  \A i, j \in DOMAIN events : (events[i] \in A /\ events[j] \in B) => i < j

CountIn(A) == Cardinality({i \in DOMAIN events : events[i] \in A})

LastMessage == messages[Len(messages)]

\* C1: the increments yielded by stream_response, concatenated in the order
\* they were yielded, equal the latest cumulative snapshot received at every
\* point of the run, and equal the run's full output once the run completed.
C1_IncrementsReproduceOutput ==
  entry = "streaming" =>
    /\ Concat(pieces) = snap
    /\ snap = SubSeq(output, 1, Len(snap))
    /\ status = "completed" => Concat(pieces) = output

C1_Witness ==
  /\ entry = "streaming"
  /\ status = "completed"
  /\ Len(pieces) >= 2
  /\ Len(output) >= 3

\* C2: a streamed run whose underlying stream is exhausted calls the Logger
\* exactly once, with that run's new_messages, after the last increment was
\* yielded and before stream_response ends; stream_response ends at most once
\* and yields nothing after it ended.
C2_OneLogAfterLastIncrement ==
  entry = "streaming" =>
    /\ Len(logged) = (IF InEvents("exhausted") THEN 1 ELSE 0)
    /\ CountIn(LogEvents) = Len(logged)
    /\ \A i \in DOMAIN logged : logged[i] = NewMessages(prompt, output)
    /\ Before({"yield"}, LogEvents)
    /\ Before(LogEvents, EndEvents)
    /\ Before({"yield"}, EndEvents)
    /\ CountIn(EndEvents) <= 1
    /\ status = "completed" => InEvents("exhausted") /\ InEvents("end")

C2_Witness ==
  /\ entry = "streaming"
  /\ InEvents("end")
  /\ Count("yield") >= 2
  /\ Len(logged) = 1

\* C3 (as claimed): when the Logger raises for a run whose agent call
\* succeeded, the user still sees the answer, the turn shows no error and the
\* answer is what the chat history records.
C3_LoggingIsolation ==
  InEvents("log_err") =>
    /\ shown = output
    /\ ~InEvents("error")
    /\ ~InEvents("crash")
    /\ entry \in {"blocking", "streaming"} =>
         /\ messages # <<>>
         /\ LastMessage = AssistantMessage(output)

\* C4 (as claimed): after a run that failed with a model-backend error the
\* program is waiting for the next prompt.
C4_FailedRunLeavesSystemReady ==
  InEvents("run_err") => pc = "idle"

\* C5: every SearchTool.search(query) makes exactly one index.search call,
\* with that query and num_results = 5, returns what the index returned (so
\* at most 5 entries), gives equal results for equal queries, and never
\* changes the index.
C5_Delegation ==
  entry = "search" =>
    /\ Len(indexCalls) = Len(queries)
    /\ Len(results) = Len(queries)
    /\ \A i \in DOMAIN queries :
         /\ indexCalls[i] = [query |-> queries[i], num_results |-> 5]
         /\ results[i] = IndexSearch(index, queries[i], 5)
         /\ Len(results[i]) <= 5
    /\ \A i, j \in DOMAIN queries : queries[i] = queries[j] => results[i] = results[j]

C5_SearchToolAdapter == [](C5_Delegation) /\ [][index' = index]_vars

C5_Witness ==
  /\ entry = "search"
  /\ Len(queries) >= 2
  /\ queries[1] = queries[2]
  /\ Len(results[2]) = 5
  /\ Len(SelectSeq(index, LAMBDA d : Matches(queries[2], d))) > 5

\* C6 (as claimed): every streamed run gets its own event loop, and once the
\* run has completed or failed no loop created by stream_response is open.
C6_LoopTornDown ==
  (entry = "streaming" /\ pc = "idle") =>
    /\ Len(loops) <= turns
    /\ \A i \in DOMAIN loops : loops[i] = "closed"

\* C7 (as claimed): once the caller has abandoned a streamed run, the
\* run_stream context is exited, the run's event loop is closed, and neither
\* the Logger call nor the store of the last response happens.
C7_AbandonTearsDown ==
  status = "abandoned" =>
    /\ ctx = "closed"
    /\ loops[Len(loops)] = "closed"
    /\ logged = <<>>
    /\ ~InEvents("store")

\* C8: once a streamed run has completed, the stored last response is the
\* final snapshot (the full output) of that run, and the assistant message
\* appended for a turn carries the full output of that turn's completed run.
C8_FinalTextRetrievable ==
  entry = "streaming" =>
    /\ (pc \in {"stored", "returned"} \/ status = "completed") =>
         last_response = Stored(output) /\ snap = output
    /\ InEvents("assistant") =>
         /\ status = "completed"
         /\ LastMessage = AssistantMessage(output)

C8_Witness ==
  /\ entry = "streaming"
  /\ InEvents("assistant")
  /\ Len(messages) = 4
  /\ Len(pieces) >= 2
  /\ messages[2].content # output

\* C9: on the blocking paths the Logger is called exactly once per completed
\* agent run, with that run's new_messages, after the run returned and before
\* the answer is shown; a failed run is not logged; a CLI input that is 'stop'
\* after trimming and lower-casing ends the loop with no run and no log.
C9_BlockingLogOncePerRun ==
  entry \in {"cli", "blocking"} =>
    /\ Len(logged) = (IF InEvents("run_ok") /\ pc # "log" THEN 1 ELSE 0)
    /\ CountIn(LogEvents) = Len(logged)
    /\ \A i \in DOMAIN logged : logged[i] = NewMessages(prompt, output)
    /\ Before({"run_ok"}, LogEvents)
    /\ Before(LogEvents, {"show"})
    /\ InEvents("show") => InEvents("log_ok")
    /\ InEvents("run_err") => logged = <<>>
    /\ (entry = "cli" /\ events # <<>> /\ Lower(Strip(prompt)) = Stop) =>
         /\ pc = "exited"
         /\ logged = <<>>
         /\ ~InEvents("run_ok") /\ ~InEvents("run_err")

C9_Witness ==
  /\ entry = "cli"
  /\ pc = "exited"
  /\ turns = 2
  /\ prompt # Stop

\* C10 (as claimed): in both chat front-ends the history alternates user,
\* assistant, starting with user, and between turns every user message has
\* its assistant message.
C10_HistoryAlternates ==
  entry \in {"blocking", "streaming"} =>
    /\ \A i \in DOMAIN messages :
         messages[i].role = (IF i % 2 = 1 THEN "user" ELSE "assistant")
    /\ pc = "idle" => Len(messages) % 2 = 0

====
